---- MODULE Spec2Model ----
(***************************************************************************)
(* A model of WalkThroughPart                                              *)
(* (src/vs/workbench/parts/walkThrough/electron-browser/walkThroughPart.ts)*)
(* as a state machine: the editor pane that renders a walk-through         *)
(* document, mounts one code editor per snippet, and saves and restores    *)
(* the scroll offset per (document, pane position).                        *)
(*                                                                         *)
(* Every handler of the class is one action.  input.resolve(true) is the   *)
(* only asynchronous step: SetInput leaves a pending call behind, and      *)
(* Resolve / Fail complete it later, in any order, also after a later      *)
(* setInput or after dispose (nothing in the class cancels the promise).   *)
(*                                                                         *)
(* What the base class and the collaborators do is taken as follows:       *)
(*   BaseEditor.setInput sets this.input; clearInput and dispose set it    *)
(*   to null; this.position is a pane slot 0..2 from the first setInput on;*)
(*   the scroll surface keeps the offsets it is given (updateState) until  *)
(*   the user scrolls or another updateState replaces them;                *)
(*   the host calls shutdown once, and after it only dispose.              *)
(*                                                                         *)
(* The state space of all handlers together is too large to enumerate, so  *)
(* five specifications share the actions, each with the handlers of one    *)
(* concern:                                                                *)
(*   Spec          document lifecycle: replacement, resolution, teardown   *)
(*   SpecStore     the view-state store across pane slots                  *)
(*   SpecPersisted the store with an earlier session's entries in it       *)
(*   SpecLayout  layout and snippet sizing                                 *)
(*   SpecClick   click interception                                        *)
(***************************************************************************)
EXTENDS Integers, Sequences, FiniteSets, TLC

VARIABLES
    calls,               \* one entry per setInput call: its input and the state of its promise
    input,               \* this.input (BaseEditor), NoInput when null
    position,            \* this.position (BaseEditor), the pane slot
    content,             \* the element children of this.content, in DOM order
    handles,             \* every disposable created so far, with the number of times it was disposed
    contentDisposables,  \* this.contentDisposables, as indices into handles
    scroll,              \* the state of this.scrollbar: scrollTop, scrollLeft
    memento,             \* this.getMemento(storageService, Scope.WORKSPACE)
    size,                \* the style width/height of this.content, NoSize before the first layout
    lineCount,           \* the line count of each snippet text model (owned by the model service)
    lineHeight,          \* editor.getConfiguration().lineHeight
    closing,             \* shutdown() has run: the window is closing
    disposed,            \* dispose() has run
    click,               \* history: what the last click handler was given and did
    lastSaved,           \* history: the scroll state last saved for each <<document, slot>>
    trace                \* history: the calls made by the last handler, in order

vars == <<calls, input, position, content, handles, contentDisposables, scroll,
          memento, size, lineCount, lineHeight, closing, disposed, click, lastSaved, trace>>

-----------------------------------------------------------------------------
(* Bounds of the model *)

MaxCalls == 2

-----------------------------------------------------------------------------
(* Program constants *)

CompactHeight == 690
MinLines == 4
ViewStateKey == "walkThroughEditorViewState"
Positions == {0, 1, 2}

NoInput == "null"
NoSize == [width |-> -1, height |-> -1]
NoHeight == 0
NoAnchor == << >>

-----------------------------------------------------------------------------
(* The inputs the host and the resolution collaborator supply.  Strings    *)
(* that the code inspects are sequences of characters.                     *)

Docs == {"h", "m", "n"}

Path(d) ==
    CASE d = "h" -> <<"/", "a", ".", "h", "t", "m", "l">>
      [] d = "m" -> <<"/", "b", ".", "m", "d">>
      [] d = "n" -> <<"/", "h", "t", "m", "l", ".", "m", "d">>

\* model.snippets[i].textEditorModel.uri.fragment: the models of one document
\* differ in their fragment only, so the fragments of a document are distinct
SnippetFragments(d) ==
    CASE d = "h" -> << >>
      [] d = "m" -> << <<"0", ".", "j", "s">>, <<"1", ".", "c", "s", "s">> >>
      [] d = "n" -> << <<"0", ".", "j", ".", "s">> >>

\* the block structure of the Markdown body: "p" is prose, "code" a fenced code block
Body(d) ==
    CASE d = "h" -> <<"p">>
      [] d = "m" -> <<"p", "code", "p", "code">>
      [] d = "n" -> <<"code", "p">>

\* one markup and one Markdown document, for the larger scenarios
SmallDocs == {"h", "m"}

HasOnReady(d) == d \in {"h", "m"}

\* the snippet text models: <<document, index of the snippet>>
Models == {m \in Docs \X (1..2) : m[2] <= Len(SnippetFragments(m[1]))}

LineCounts == {1, 3, 5}
LineHeights == {2}
ScrollValues == {0, 1}
LayoutWidths == {1, 2}
LayoutHeights == {CompactHeight, CompactHeight + 1}

-----------------------------------------------------------------------------
(* Strings *)

\* strings.endsWith(haystack, needle)
EndsWith(s, suffix) ==
    /\ Len(s) >= Len(suffix)
    /\ SubSeq(s, Len(s) - Len(suffix) + 1, Len(s)) = suffix

\* URI.toString() of input.getResource(): scheme, "://" and the path
ResourceToString(d) == <<"f", "i", "l", "e", ":", "/", "/">> \o Path(d)

\* `snippet-${fragment}`
SnippetId(fragment) == <<"snippet-">> \o fragment

\* a lookup that leaves the dots of the id as they are
EscapeNothing(s) == s

RECURSIVE EscapeDots(_)
\* id.replace(/\./g, '\\.')
EscapeDots(s) ==
    IF s = << >> THEN << >>
    ELSE (IF Head(s) = "." THEN <<"\\", ".">> ELSE <<Head(s)>>) \o EscapeDots(Tail(s))

RECURSIVE SelectorIdent(_)
\* the identifier a CSS id selector names: a backslash escapes the next
\* character, an unescaped "." ends the identifier (a class selector follows)
SelectorIdent(s) ==
    IF s = << >> THEN << >>
    ELSE IF Head(s) = "\\" /\ Len(s) >= 2 THEN <<s[2]>> \o SelectorIdent(Tail(Tail(s)))
    ELSE IF Head(s) = "." THEN << >>
    ELSE <<Head(s)>> \o SelectorIdent(Tail(s))

RECURSIVE SelectorClasses(_)
\* TRUE when the selector goes on with a class selector after the identifier
SelectorClasses(s) ==
    IF s = << >> THEN FALSE
    ELSE IF Head(s) = "\\" /\ Len(s) >= 2 THEN SelectorClasses(Tail(Tail(s)))
    ELSE IF Head(s) = "." THEN TRUE
    ELSE SelectorClasses(Tail(s))

\* innerContent.querySelector(`#${selector}`) over the placeholder divs of one
\* rendered document: the index of the first div whose id the selector names,
\* 0 when there is none.  The placeholders carry the one class
\* walkThroughEditorContainer, which no fragment-derived class selector names.
QuerySelector(anchors, selector) ==
    LET hits == {k \in DOMAIN anchors :
                    /\ anchors[k] = SelectorIdent(selector)
                    /\ ~SelectorClasses(selector)}
    IN IF hits = {} THEN 0 ELSE CHOOSE k \in hits : \A j \in hits : k <= j

-----------------------------------------------------------------------------
(* The history variable: one event per call a handler makes *)

Ev(name, doc, pos, top, left) ==
    [ev |-> name, doc |-> doc, pos |-> pos, top |-> top, left |-> left]

Op(name, doc) == Ev(name, doc, -1, -1, -1)

-----------------------------------------------------------------------------
(* ScrollSurface: DomScrollableElement *)

\* this.scrollbar.updateState(state): the fields given replace the current ones
UpdateState(scr, state) == [f \in DOMAIN scr |-> IF f \in DOMAIN state THEN state[f] ELSE scr[f]]

-----------------------------------------------------------------------------
(* ViewStateStore *)

EmptyObject == [x \in {} |-> x]

\* typeof this.position === 'number'
IsNumber(pos) == pos \in Int

\* a save that starts the document's slots afresh instead of looking them up
SaveTextEditorViewStateFresh(mem, resource, pos, scr) ==
    LET mem1 == IF ViewStateKey \in DOMAIN mem THEN mem
                ELSE (ViewStateKey :> EmptyObject) @@ mem
        editorViewState ==
            [viewState |-> [scrollTop |-> scr.scrollTop, scrollLeft |-> scr.scrollLeft]]
        key == ResourceToString(resource)
        fileViewState1 == IF IsNumber(pos) THEN (pos :> editorViewState) ELSE EmptyObject
    IN [mem1 EXCEPT ![ViewStateKey] = (key :> fileViewState1) @@ mem1[ViewStateKey]]

SaveTextEditorViewState(mem, resource, pos, scr) ==
    LET mem1 == IF ViewStateKey \in DOMAIN mem THEN mem
                ELSE (ViewStateKey :> EmptyObject) @@ mem
        editorViewState ==
            [viewState |-> [scrollTop |-> scr.scrollTop, scrollLeft |-> scr.scrollLeft]]
        key == ResourceToString(resource)
        fileViewState == IF key \in DOMAIN mem1[ViewStateKey]
                         THEN mem1[ViewStateKey][key] ELSE EmptyObject
        fileViewState1 == IF IsNumber(pos) THEN (pos :> editorViewState) @@ fileViewState
                          ELSE fileViewState
    IN [mem1 EXCEPT ![ViewStateKey] = (key :> fileViewState1) @@ mem1[ViewStateKey]]

\* the view state loadTextEditorViewState finds, as a set of at most one element
StoredViewState(mem, resource, pos) ==
    IF /\ ViewStateKey \in DOMAIN mem
       /\ ResourceToString(resource) \in DOMAIN mem[ViewStateKey]
       /\ pos \in DOMAIN mem[ViewStateKey][ResourceToString(resource)]
    THEN {mem[ViewStateKey][ResourceToString(resource)][pos].viewState}
    ELSE {}

\* a load that applies the stored scrollTop only
LoadTextEditorViewStateTopOnly(mem, resource, pos, scr) ==
    LET found == StoredViewState(mem, resource, pos)
    IN IF found = {} THEN scr
       ELSE UpdateState(scr, [scrollTop |-> (CHOOSE st \in found : TRUE).scrollTop])

\* the scroll state after loadTextEditorViewState(resource)
LoadTextEditorViewState(mem, resource, pos, scr) ==
    LET found == StoredViewState(mem, resource, pos)
    IN IF found = {} THEN scr ELSE UpdateState(scr, CHOOSE st \in found : TRUE)

\* the events of loadTextEditorViewState(resource)
LoadEvents(mem, resource, pos) ==
    LET found == StoredViewState(mem, resource, pos)
    IN <<Ev("load", resource, pos, -1, -1)>> \o
       (IF found = {} THEN << >>
        ELSE LET st == CHOOSE x \in found : TRUE
             IN <<Ev("updateState", resource, pos, st.scrollTop, st.scrollLeft)>>)

\* a handler that forgets to save before it goes on
SaveCurrentForgotten(mem, inp, pos, scr) == mem

\* if (this.input instanceof WalkThroughInput) this.saveTextEditorViewState(...)
SaveCurrent(mem, inp, pos, scr) ==
    IF inp # NoInput THEN SaveTextEditorViewState(mem, inp, pos, scr) ELSE mem

SaveEvents(inp, pos, scr) ==
    IF inp # NoInput THEN <<Ev("save", inp, pos, scr.scrollTop, scr.scrollLeft)>> ELSE << >>

-----------------------------------------------------------------------------
(* The disposal group *)

Occurrences(list, x) == Cardinality({k \in DOMAIN list : list[k] = x})

\* dispose(this.contentDisposables): every entry of the list is disposed, once
\* per time it is in the list
DisposeAll(hs, list) ==
    [k \in DOMAIN hs |-> [hs[k] EXCEPT !.disposals = @ + Occurrences(list, k)]]

Live(h) == h.disposals = 0

-----------------------------------------------------------------------------
(* DocumentRenderer *)

IsMarkup(d) == EndsWith(Path(d), <<".", "h", "t", "m", "l">>)

RECURSIVE RenderBlocks(_, _, _)
\* marked(markdown, { renderer }): the ids of the elements produced, in document
\* order; renderer.code gives the i-th code block the id of model.snippets[i]
\* and increments i, prose elements carry no id
RenderBlocks(blocks, fragments, i) ==
    IF blocks = << >> THEN << >>
    ELSE IF Head(blocks) = "code"
         THEN <<SnippetId(fragments[i + 1])>> \o RenderBlocks(Tail(blocks), fragments, i + 1)
         ELSE <<NoAnchor>> \o RenderBlocks(Tail(blocks), fragments, i)

\* the root element a resolution of call c mounts
InnerContent(c, d) ==
    [call |-> c, doc |-> d, compact |-> FALSE,
     ids |-> IF IsMarkup(d) THEN << >> ELSE RenderBlocks(Body(d), SnippetFragments(d), 0)]

-----------------------------------------------------------------------------
(* SnippetEditorManager *)

Max(a, b) == IF a >= b THEN a ELSE b

\* a height that leaves out the extra line
HeightWithoutExtraLine(lines, lh) == Max(lines, MinLines) * lh

\* `${Math.max(model.getLineCount() + 1, 4) * lineHeight}px`
HeightFor(lines, lh) == Max(lines + 1, MinLines) * lh

NoModel == <<NoInput, 0>>

Handle(kind, c, d, i, target) ==
    [kind |-> kind, call |-> c, doc |-> d, snip |-> i, target |-> target,
     model |-> NoModel, anchor |-> 0, height |-> NoHeight, laidOut |-> <<-1, -1>>, disposals |-> 0]

\* updateHeight(initial) on editor handle e: the handle afterwards
UpdateHeight(e, lines, lh, width) ==
    IF e.height # HeightFor(lines, lh)
    THEN [e EXCEPT !.height = HeightFor(lines, lh),
                   !.laidOut = <<width, HeightFor(lines, lh)>>]
    ELSE e

\* an updateHeight that rescans on the first sizing too
UpdateHeightEventsAlwaysScan(e, initial, lines, lh) ==
    IF e.height # HeightFor(lines, lh)
    THEN <<Ev("setHeight", e.doc, e.snip, HeightFor(lines, lh), e.call),
           Ev("editor.layout", e.doc, e.snip, -1, e.call),
           Op("scanDomNode", e.doc)>>
    ELSE << >>

\* the events of updateHeight(initial) on editor handle e
UpdateHeightEvents(e, initial, lines, lh) ==
    IF e.height # HeightFor(lines, lh)
    THEN <<Ev("setHeight", e.doc, e.snip, HeightFor(lines, lh), e.call),
           Ev("editor.layout", e.doc, e.snip, -1, e.call)>>
         \o (IF ~initial THEN <<Op("scanDomNode", e.doc)>> ELSE << >>)
    ELSE << >>

\* model.snippets.forEach body for snippet i of call c: the three disposables
\* pushed (the editor first) and the events; base is the number of handles
\* that exist before
MountSnippet(c, d, i, ids, base, lines, lh, width) ==
    LET div == QuerySelector(ids, EscapeDots(SnippetId(SnippetFragments(d)[i])))
        model == <<d, i>>
        editor == [Handle("editor", c, d, i, 0) EXCEPT !.anchor = div, !.model = model]
    IN [hs |-> <<UpdateHeight(editor, lines[model], lh, width),
                 Handle("onDidChangeModelContent", c, d, i, base + 1),
                 Handle("onDidColorThemeChange", c, d, i, base + 1)>>,
        evs |-> <<Ev("createEditor", d, i, div, c)>>
                \o UpdateHeightEvents(editor, TRUE, lines[model], lh)]

RECURSIVE MountSnippets(_, _, _, _, _, _, _, _)
\* model.snippets.forEach from snippet i on
MountSnippets(c, d, i, ids, base, lines, lh, width) ==
    IF i > Len(SnippetFragments(d)) THEN [hs |-> << >>, evs |-> << >>]
    ELSE LET one == MountSnippet(c, d, i, ids, base, lines, lh, width)
             rest == MountSnippets(c, d, i + 1, ids, base + 3, lines, lh, width)
         IN [hs |-> one.hs \o rest.hs, evs |-> one.evs \o rest.evs]

-----------------------------------------------------------------------------
(* Click interception *)

\* JSON values: an object is its properties; an array is its items, and may
\* carry named properties beside them
NoQuery == [kind |-> "none", items |-> << >>, props |-> EmptyObject]
JsonObject(props) == [kind |-> "object", items |-> << >>, props |-> props]
JsonArray(items) == [kind |-> "array", items |-> items, props |-> EmptyObject]

\* JSON.parse(text): the text of a value is the value as JSON.stringify writes it
JsonParse(text) == text

\* JSON.stringify(value): of an array, the items only
JsonStringify(value) ==
    IF value.kind = "array" THEN [value EXCEPT !.props = EmptyObject] ELSE value

\* value[key] = v
SetProperty(value, key, v) == [value EXCEPT !.props = (key :> v) @@ @]

\* (<WalkThroughInput>this.input).getTelemetryFrom()
TelemetryFrom(d) ==
    CASE d = "h" -> "from-h" [] d = "m" -> "from-m" [] d = "n" -> "from-n"

Uri(scheme, path, query, fragment) ==
    [scheme |-> scheme, path |-> path, query |-> query, fragment |-> fragment]

NoUri == Uri("", << >>, NoQuery, "")

\* the href as a string, the query as one opaque character
HrefString(u) ==
    <<u.scheme, ":">> \o u.path
    \o (IF u.query # NoQuery THEN <<"?", "q">> ELSE << >>)
    \o (IF u.fragment # "" THEN <<"#", u.fragment>> ELSE << >>)

\* the href of the <base> element, or of window.location
BaseHref == <<"file", ":", "/", "app">>

\* haystack.indexOf(needle) >= 0
Contains(haystack, needle) ==
    \E i \in 1..(Len(haystack) + 1) :
        /\ i + Len(needle) - 1 <= Len(haystack)
        /\ SubSeq(haystack, i, i + Len(needle) - 1) = needle

\* the vertical offset, within the content, of the element that
\* this.content.querySelector(hash) finds; -1 when it finds none
TargetOffset(fragment) == IF fragment = "section2" THEN 2 ELSE -1

\* element.getBoundingClientRect().top: the distance from the top of the
\* viewport; the content scrolls inside its box, so an element at `offset`
\* in the content is drawn scrollTop higher
BoundingTop(containerTop, offset, scr) == containerTop + offset - scr.scrollTop

addFrom(uri, inp) ==
    IF uri.scheme # "command" THEN uri
    ELSE LET query == IF uri.query # NoQuery THEN JsonParse(uri.query)
                      ELSE JsonObject(EmptyObject)
         IN [uri EXCEPT !.query =
                JsonStringify(SetProperty(query, "from", TelemetryFrom(inp)))]

Node(tag, href) == [tag |-> tag, href |-> href]

\* node instanceof HTMLAnchorElement && node.href
IsAnchorWithHref(node) == node.tag = "a" /\ node.href # NoUri

\* node.href.indexOf(baseElement.href) >= 0 && node.hash
IsInDocument(href) == Contains(HrefString(href), BaseHref) /\ href.fragment # ""

NoClick == [path |-> << >>, containerTop |-> 0, matched |-> 0, opened |-> << >>,
            prevented |-> FALSE]

RECURSIVE FirstMatch(_, _)
\* the walk from event.target up: the index of the first anchor with an href
\* or button, 0 when the walk reaches the content root without one
FirstMatch(path, k) ==
    IF k > Len(path) THEN 0
    ELSE IF IsAnchorWithHref(path[k]) \/ path[k].tag = "button" THEN k
    ELSE FirstMatch(path, k + 1)

\* the click listener of registerClickHandler; path is the chain of elements
\* from event.target up to, and without, the content root.  A click needs
\* mounted content to land on, and the pane is shown with an input only.
Click(path, containerTop) ==
    /\ ~disposed
    /\ ~closing
    /\ content # << >>
    /\ input # NoInput
    /\ LET k == FirstMatch(path, 1)
           node == path[k]
           scrolls == k > 0 /\ IsAnchorWithHref(node) /\ IsInDocument(node.href)
                      /\ TargetOffset(node.href.fragment) >= 0
           opens == k > 0 /\ node.href # NoUri
                    /\ (node.tag = "button" \/ ~IsInDocument(node.href))
       IN /\ scroll' = IF scrolls
                       THEN LET targetTop ==
                                    BoundingTop(containerTop,
                                                TargetOffset(node.href.fragment), scroll)
                            IN UpdateState(scroll, [scrollTop |-> targetTop - containerTop])
                       ELSE scroll
          /\ click' = [path |-> path, containerTop |-> containerTop, matched |-> k,
                       opened |-> IF opens THEN <<addFrom(node.href, input)>> ELSE << >>,
                       prevented |-> k > 0 /\ IsAnchorWithHref(node)]
          /\ trace' = <<Ev("click", input, k, scroll.scrollTop, scroll.scrollLeft)>>
    /\ UNCHANGED <<calls, input, position, content, handles, contentDisposables,
                   memento, size, lineCount, lineHeight, closing, disposed, lastSaved>>

-----------------------------------------------------------------------------
(* The state after construction and createEditor *)

NotSaved == [scrollTop |-> -1, scrollLeft |-> -1]

Init ==
    /\ calls = << >>
    /\ input = NoInput
    /\ position \in Positions
    /\ content = << >>
    /\ handles = << >>
    /\ contentDisposables = << >>
    /\ scroll = [scrollTop |-> 0, scrollLeft |-> 0]
    /\ memento = EmptyObject
    /\ size = NoSize
    /\ lineCount = [m \in Models |-> 1]
    /\ lineHeight \in LineHeights
    /\ closing = FALSE
    /\ disposed = FALSE
    /\ click = NoClick
    /\ lastSaved = [k \in Docs \X Positions |-> NotSaved]
    /\ trace = << >>

\* the history of saves: what a handler that starts with
\* `if (this.input instanceof WalkThroughInput) this.saveTextEditorViewState(..)`
\* saves, and for which <<document, slot>>
RecordSave ==
    lastSaved' = IF input # NoInput
                 THEN [lastSaved EXCEPT ![<<input, position>>] = scroll]
                 ELSE lastSaved

-----------------------------------------------------------------------------
(* setInput: the synchronous part, up to the suspension at input.resolve *)

SetInput(d) ==
    /\ ~disposed
    /\ ~closing
    /\ Len(calls) < MaxCalls
    /\ memento' = SaveCurrent(memento, input, position, scroll)
    /\ RecordSave
    /\ handles' = DisposeAll(handles, contentDisposables)
    /\ contentDisposables' = << >>
    /\ content' = << >>
    /\ input' = d
    /\ calls' = Append(calls, [doc |-> d, status |-> "pending"])
    /\ trace' = <<Op("setInput", input)>> \o SaveEvents(input, position, scroll)
                \o <<Op("dispose", d), Op("clearContent", d)>>
    /\ UNCHANGED <<position, scroll, size, lineCount, lineHeight, click, closing, disposed>>

(* setInput: the continuation that runs when input.resolve of call c completes *)

ResolveMarkup(c, d) ==
    /\ content' = <<InnerContent(c, d)>>
    /\ trace' = <<Ev("resolve", d, -1, -1, c), Ev("mount", d, -1, -1, c)>>
                \o (IF HasOnReady(d) THEN <<Op("onReady", d)>> ELSE << >>)
                \o <<Op("scanDomNode", d)>> \o LoadEvents(memento, d, position)
    /\ UNCHANGED <<handles, contentDisposables>>

ResolveMarkdown(c, d) ==
    LET innerContent == InnerContent(c, d)
        style == Handle("onDidColorThemeChange", c, d, 0, 0)
        mounted == MountSnippets(c, d, 1, innerContent.ids, Len(handles) + 1,
                                 lineCount, lineHeight, size.width)
        pushed == <<style>> \o mounted.hs
    IN /\ content' = Append(content, innerContent)
       /\ handles' = handles \o pushed
       /\ contentDisposables' =
              contentDisposables \o [k \in 1..Len(pushed) |-> Len(handles) + k]
       /\ trace' = <<Ev("resolve", d, -1, -1, c), Ev("mount", d, -1, -1, c)>>
                   \o mounted.evs
                   \o (IF HasOnReady(d) THEN <<Op("onReady", d)>> ELSE << >>)
                   \o <<Op("scanDomNode", d)>> \o LoadEvents(memento, d, position)

Resolve(c) ==
    /\ c \in DOMAIN calls
    /\ calls[c].status = "pending"
    /\ calls' = [calls EXCEPT ![c].status = "resolved"]
    /\ IF IsMarkup(calls[c].doc) THEN ResolveMarkup(c, calls[c].doc)
       ELSE ResolveMarkdown(c, calls[c].doc)
    /\ scroll' = LoadTextEditorViewState(memento, calls[c].doc, position, scroll)
    /\ UNCHANGED <<input, position, memento, size, lineCount, lineHeight, click, closing,
                   disposed, lastSaved>>

\* input.resolve of call c fails: the continuation never runs
Fail(c) ==
    /\ c \in DOMAIN calls
    /\ calls[c].status = "pending"
    /\ calls' = [calls EXCEPT ![c].status = "failed"]
    /\ trace' = << >>
    /\ UNCHANGED <<input, position, content, handles, contentDisposables, scroll,
                   memento, size, lineCount, lineHeight, click, closing, disposed, lastSaved>>

(* clearInput, shutdown, dispose *)

ClearInput ==
    /\ ~disposed
    /\ ~closing
    /\ input # NoInput
    /\ memento' = SaveCurrent(memento, input, position, scroll)
    /\ RecordSave
    /\ input' = NoInput
    /\ trace' = <<Op("clearInput", input)>> \o SaveEvents(input, position, scroll)
    /\ UNCHANGED <<calls, position, content, handles, contentDisposables, scroll,
                   size, lineCount, lineHeight, click, closing, disposed>>

\* the host calls shutdown once, when the window closes
Shutdown ==
    /\ ~disposed
    /\ ~closing
    /\ closing' = TRUE
    /\ memento' = SaveCurrent(memento, input, position, scroll)
    /\ RecordSave
    /\ trace' = <<Op("shutdown", input)>> \o SaveEvents(input, position, scroll)
    /\ UNCHANGED <<calls, input, position, content, handles, contentDisposables,
                   scroll, size, lineCount, lineHeight, click, disposed>>

Dispose ==
    /\ ~disposed
    /\ handles' = DisposeAll(handles, contentDisposables)
    /\ contentDisposables' = << >>
    /\ disposed' = TRUE
    /\ input' = NoInput
    /\ trace' = <<Op("dispose()", input)>>
    /\ UNCHANGED <<calls, position, content, scroll, memento, size, lineCount,
                   lineHeight, click, closing, lastSaved>>

(* The host and the user *)

\* the user scrolls the mounted content
UserScroll(top, left) ==
    /\ ~disposed
    /\ ~closing
    /\ content # << >>
    /\ scroll' = [scrollTop |-> top, scrollLeft |-> left]
    /\ scroll' # scroll
    /\ trace' = << >>
    /\ UNCHANGED <<calls, input, position, content, handles, contentDisposables,
                   memento, size, lineCount, lineHeight, click, closing, disposed, lastSaved>>

\* the host moves the editor to another pane slot (BaseEditor.changePosition)
ChangePosition(p) ==
    /\ ~disposed
    /\ ~closing
    /\ p # position
    /\ position' = p
    /\ trace' = << >>
    /\ UNCHANGED <<calls, input, content, handles, contentDisposables, scroll,
                   memento, size, lineCount, lineHeight, click, closing, disposed, lastSaved>>

-----------------------------------------------------------------------------
(* LayoutCoordinator *)

\* a threshold that leaves the boundary height out
IsCompactBelow(height) == height < CompactHeight

\* height <= 690
IsCompact(height) == height <= CompactHeight

\* classList.toggle in place of add / remove
FlipCompact(el, height) ==
    [el EXCEPT !.compact = IF IsCompact(height) THEN ~@ ELSE FALSE]

\* classList[height <= 690 ? 'add' : 'remove']('max-height-690px')
SetCompact(el, height) == [el EXCEPT !.compact = IsCompact(height)]

\* editor.layout(): the editor measures its host region
LayoutEditor(e, width) == [e EXCEPT !.laidOut = <<width, e.height>>]

InGroup(k) == \E j \in DOMAIN contentDisposables : contentDisposables[j] = k

RECURSIVE EditorLayoutEvents(_, _)
\* this.contentDisposables.forEach(... disposable.layout() ...) from entry j on
EditorLayoutEvents(hs, list) ==
    IF list = << >> THEN << >>
    ELSE (IF hs[Head(list)].kind = "editor"
          THEN <<Ev("editor.layout", hs[Head(list)].doc, hs[Head(list)].snip, -1,
                    hs[Head(list)].call)>>
          ELSE << >>) \o EditorLayoutEvents(hs, Tail(list))

Layout(w, h) ==
    /\ ~disposed
    /\ ~closing
    /\ size' = [width |-> w, height |-> h]
    /\ content' = IF content # << >>
                  THEN [content EXCEPT ![1] = SetCompact(@, h)] ELSE content
    /\ handles' = [k \in DOMAIN handles |->
                     IF handles[k].kind = "editor" /\ InGroup(k)
                     THEN LayoutEditor(handles[k], w) ELSE handles[k]]
    /\ trace' = <<Ev("layout", input,
                     IF trace # << >> /\ trace[1].ev = "layout"
                        /\ trace[1].top = w /\ trace[1].left = h THEN 1 ELSE 0,
                     w, h)>>
                \o EditorLayoutEvents(handles, contentDisposables)
                \o <<Op("scanDomNode", input)>>
    /\ UNCHANGED <<calls, input, position, contentDisposables, scroll, memento,
                   lineCount, lineHeight, click, closing, disposed, lastSaved>>

(* A snippet text model changes: editor.onDidChangeModelContent fires *)

\* editor handle k has a live content-change subscription on model m
Listening(hs, k, m) ==
    /\ hs[k].kind = "editor"
    /\ hs[k].model = m
    /\ \E j \in DOMAIN hs : /\ hs[j].kind = "onDidChangeModelContent"
                            /\ hs[j].target = k
                            /\ Live(hs[j])

RECURSIVE ContentChangeEvents(_, _, _, _, _)
ContentChangeEvents(hs, k, m, lines, lh) ==
    IF k > Len(hs) THEN << >>
    ELSE (IF Listening(hs, k, m) THEN UpdateHeightEvents(hs[k], FALSE, lines, lh)
          ELSE << >>) \o ContentChangeEvents(hs, k + 1, m, lines, lh)

\* the user edits snippet model m in one of its live editors
ContentChange(m, lines) ==
    /\ \E k \in DOMAIN handles : Listening(handles, k, m)
    /\ lineCount' = [lineCount EXCEPT ![m] = lines]
    /\ handles' = [k \in DOMAIN handles |->
                     IF Listening(handles, k, m)
                     THEN UpdateHeight(handles[k], lines, lineHeight, size.width)
                     ELSE handles[k]]
    /\ trace' = <<Ev("contentChange", m[1], m[2], lines, -1)>>
                \o ContentChangeEvents(handles, 1, m, lines, lineHeight)
    /\ UNCHANGED <<calls, input, position, content, contentDisposables, scroll,
                   memento, size, lineHeight, click, closing, disposed, lastSaved>>

-----------------------------------------------------------------------------
(* The document lifecycle: replacement, resolution in any order, teardown *)

Next ==
    \/ \E d \in Docs : SetInput(d)
    \/ \E c \in 1..MaxCalls : Resolve(c)
    \/ \E c \in 1..MaxCalls : Fail(c)
    \/ ClearInput
    \/ Shutdown
    \/ Dispose
    \/ \E top \in ScrollValues, left \in ScrollValues : UserScroll(top, left)

Spec == Init /\ [][Next]_vars

-----------------------------------------------------------------------------
(* The view-state store: saves and loads across pane slots *)

NextStore ==
    \/ \E d \in SmallDocs : SetInput(d)
    \/ \E c \in 1..MaxCalls : Resolve(c)
    \/ ClearInput
    \/ \E top \in ScrollValues, left \in ScrollValues : UserScroll(top, left)
    \/ \E p \in Positions : ChangePosition(p)

InitStore == Init /\ position = 0

SpecStore == InitStore /\ [][NextStore]_vars

-----------------------------------------------------------------------------
(* The view-state store with what an earlier session left in it: the       *)
(* memento is read from workspace storage, and the saves of the earlier    *)
(* session are in it when the part is created                              *)

\* the store an earlier session leaves: document h seen in slots 0 and 1
PersistedStore ==
    SaveTextEditorViewState(
        SaveTextEditorViewState(EmptyObject, "h", 0, [scrollTop |-> 1, scrollLeft |-> 1]),
        "h", 1, [scrollTop |-> 0, scrollLeft |-> 1])

PersistedStores == {EmptyObject, PersistedStore}

InitPersisted ==
    /\ calls = << >>
    /\ input = NoInput
    /\ position \in Positions
    /\ content = << >>
    /\ handles = << >>
    /\ contentDisposables = << >>
    /\ scroll = [scrollTop |-> 0, scrollLeft |-> 0]
    /\ memento \in PersistedStores
    /\ size = NoSize
    /\ lineCount = [m \in Models |-> 1]
    /\ lineHeight \in LineHeights
    /\ closing = FALSE
    /\ disposed = FALSE
    /\ click = NoClick
    /\ lastSaved = [k \in Docs \X Positions |->
                      LET found == StoredViewState(memento, k[1], k[2])
                      IN IF found = {} THEN NotSaved ELSE CHOOSE st \in found : TRUE]
    /\ trace = << >>

NextPersisted ==
    \/ \E d \in SmallDocs : SetInput(d)
    \/ \E c \in 1..MaxCalls : Resolve(c)
    \/ ClearInput
    \/ \E top \in ScrollValues, left \in ScrollValues : UserScroll(top, left)

SpecPersisted == InitPersisted /\ [][NextPersisted]_vars

-----------------------------------------------------------------------------
(* Layout and snippet sizing: resizes and edits while documents come and go *)

InitLayout == Init /\ position = 0

NextLayout ==
    \/ \E d \in SmallDocs : SetInput(d)
    \/ \E c \in 1..MaxCalls : Resolve(c)
    \/ \E w \in LayoutWidths, h \in LayoutHeights : Layout(w, h)
    \/ \E m \in Models, lines \in LineCounts : ContentChange(m, lines)

SpecLayout == InitLayout /\ [][NextLayout]_vars

-----------------------------------------------------------------------------
(* Clicks on the mounted content *)

InDocumentHref(fragment) == Uri("file", <<"/", "app">>, NoQuery, fragment)
CommandHref(query) == Uri("command", <<"workbench.action.showCommands">>, query, "")
ExternalHref == Uri("https", <<"/", "/", "code.visualstudio.com">>, NoQuery, "")

Queries ==
    {NoQuery,
     JsonObject(EmptyObject),
     JsonObject("id" :> "x"),
     JsonObject("from" :> "other"),
     JsonArray(<<"x">>)}

Hrefs ==
    {InDocumentHref("section2"), InDocumentHref("nowhere"), InDocumentHref(""),
     ExternalHref}
    \cup {CommandHref(q) : q \in Queries}

\* the chains of elements a click can start from
ClickPaths ==
    {<<Node("a", h)>> : h \in Hrefs}
    \cup {<<Node("span", NoUri), Node("a", h)>> : h \in Hrefs}
    \cup {<<Node("button", h)>> : h \in {NoUri, CommandHref(NoQuery)}}
    \cup {<<Node("span", NoUri)>>,
          <<Node("a", NoUri), Node("p", NoUri)>>,
          <<Node("span", NoUri), Node("button", NoUri), Node("a", ExternalHref)>>}

ContainerTops == {0, 35}

InitClick == Init /\ position = 0

NextClick ==
    \/ \E d \in SmallDocs : SetInput(d)
    \/ \E c \in 1..MaxCalls : Resolve(c)
    \/ \E top \in ScrollValues, left \in ScrollValues : UserScroll(top, left)
    \/ \E path \in ClickPaths, top \in ContainerTops : Click(path, top)

SpecClick == InitClick /\ [][NextClick]_vars

-----------------------------------------------------------------------------
(* Properties of the document lifecycle *)

LastOp == IF trace = << >> THEN "none" ELSE trace[1].ev

ViewStateOf(scr) == [scrollTop |-> scr.scrollTop, scrollLeft |-> scr.scrollLeft]

\* C1: once a later setInput call has been made, only the content, editors and
\* subscriptions of the most recent call are mounted or live: a resolution of
\* an earlier call that completes afterwards adds nothing.
C1_OnlyLatestCallMounted ==
    /\ \A k \in DOMAIN content : content[k].call = Len(calls)
    /\ \A k \in DOMAIN handles : Live(handles[k]) => handles[k].call = Len(calls)

\* C2: after dispose() no editor and no subscription is live, also when a
\* resolution that was pending at dispose() completes afterwards.
C2_NothingLiveAfterDispose ==
    disposed => \A k \in DOMAIN handles : ~Live(handles[k])

\* C3: a replacing setInput saves the outgoing document's scroll state under
\* the outgoing document before the content is cleared and anything new is
\* mounted, and every snippet editor of a document that has been replaced is
\* disposed exactly once: never twice, and never left undisposed.
C3_OutgoingSavedAndDisposedOnce ==
    /\ (LastOp = "setInput" /\ trace[1].doc # NoInput) =>
          /\ trace[2].ev = "save" /\ trace[2].doc = trace[1].doc
          /\ StoredViewState(memento, trace[1].doc, position)
                = {[scrollTop |-> trace[2].top, scrollLeft |-> trace[2].left]}
    /\ \A k \in DOMAIN handles : handles[k].disposals <= 1
    /\ \A k \in DOMAIN handles :
          (handles[k].kind = "editor" /\ handles[k].call < Len(calls))
             => handles[k].disposals = 1

SavedBy(ops) ==
    (LastOp' \in ops /\ input # NoInput) =>
        /\ Len(trace') >= 2
        /\ trace'[2] = Ev("save", input, position, scroll.scrollTop, scroll.scrollLeft)
        /\ StoredViewState(memento', input, position) = {ViewStateOf(scroll)}

\* C5 as stated: setInput, clearInput, shutdown and dispose each save the
\* current document's scroll state, under that document, as their first step.
C5_SavedOnEveryExit ==
    [][SavedBy({"setInput", "clearInput", "shutdown", "dispose()"})]_vars

\* C5 amended: setInput, clearInput and shutdown each save the current
\* document's scroll state, under that document, as their first step; dispose
\* saves nothing and leaves the store as it is.
C5_SavedOnReplaceClearShutdown ==
    [][/\ SavedBy({"setInput", "clearInput", "shutdown"})
       /\ (LastOp' = "dispose()" => memento' = memento)]_vars

\* a document was current and scrolled when dispose() ran, and its scroll
\* state is not in the store
C5_Witness ==
    /\ LastOp = "dispose()"
    /\ trace[1].doc # NoInput
    /\ scroll.scrollTop = 1
    /\ StoredViewState(memento, trace[1].doc, position) = {}

-----------------------------------------------------------------------------
(* Properties of the view-state store *)

LastEvent == trace[Len(trace)]

\* C4: a load for <<document, slot>> applies exactly the scroll state (top and
\* left) that the last save for that document at that slot stored, and a load
\* for a pair that was never saved applies nothing.
C4_SaveLoadRoundTrip ==
    [][LastOp' = "resolve" =>
          LET d == trace'[1].doc
              saved == lastSaved[<<d, position>>]
          IN IF saved # NotSaved
             THEN /\ LastEvent' = Ev("updateState", d, position,
                                     saved.scrollTop, saved.scrollLeft)
                  /\ scroll' = saved
             ELSE /\ LastEvent'.ev = "load"
                  /\ scroll' = scroll]_vars

\* a load has just restored the state saved for the document at the current
\* slot, while another slot holds a different state for the same document
C4_Witness ==
    /\ LastOp = "resolve"
    /\ LastEvent.ev = "updateState"
    /\ scroll = [scrollTop |-> 1, scrollLeft |-> 0]
    /\ lastSaved[<<trace[1].doc, position>>] = scroll
    /\ \E p \in Positions :
          /\ p # position
          /\ lastSaved[<<trace[1].doc, p>>] = [scrollTop |-> 0, scrollLeft |-> 1]

-----------------------------------------------------------------------------
(* Properties of rendering, sizing and layout *)

RECURSIVE AnchorIndices(_, _)
\* the positions, in document order, of the elements of a rendered document
\* that are snippet placeholders
AnchorIndices(ids, k) ==
    IF k > Len(ids) THEN << >>
    ELSE (IF ids[k] # NoAnchor THEN <<k>> ELSE << >>) \o AnchorIndices(ids, k + 1)

CodeBlocks(d) == Cardinality({k \in DOMAIN Body(d) : Body(d)[k] = "code"})

EditorsOf(c) == {k \in DOMAIN handles : handles[k].kind = "editor" /\ handles[k].call = c}

\* C6: a Markdown document with N code blocks and N snippet models is rendered
\* with exactly N placeholders, the i-th carrying the id of the i-th model, and
\* the editor mounted on the i-th placeholder is bound to the i-th model.
C6_AnchorsBoundInOrder ==
    \A e \in DOMAIN content :
        LET el == content[e]
            anchors == AnchorIndices(el.ids, 1)
            fragments == SnippetFragments(el.doc)
        IN ~IsMarkup(el.doc) =>
              /\ Len(anchors) = CodeBlocks(el.doc)
              /\ Len(anchors) = Len(fragments)
              /\ \A i \in DOMAIN anchors : el.ids[anchors[i]] = SnippetId(fragments[i])
              /\ Cardinality(EditorsOf(el.call)) = Len(fragments)
              /\ \A i \in DOMAIN anchors :
                    \E k \in EditorsOf(el.call) :
                        /\ handles[k].anchor = anchors[i]
                        /\ handles[k].model = <<el.doc, i>>

\* both snippet editors of document m are mounted, and so is the editor of
\* document n, whose fragment holds two dots
C6_Witness ==
    /\ \E e \in DOMAIN content :
          content[e].doc = "m" /\ Cardinality(EditorsOf(content[e].call)) = 2
    /\ \E e \in DOMAIN content :
          content[e].doc = "n" /\ Cardinality(EditorsOf(content[e].call)) = 1

HasEvent(tr, e) == \E j \in DOMAIN tr : tr[j] = e

\* C7: after the initial mount and after every content change, the host
\* region of each live editor on the model is max(L + 1, 4) * H high; a content
\* change writes the height and lays the editor out again exactly when the
\* new value differs from the current one.
C7_HeightFormula ==
    [][/\ LastOp' = "resolve" =>
            \A k \in DOMAIN handles' :
                (k \notin DOMAIN handles /\ handles'[k].kind = "editor") =>
                    handles'[k].height
                       = Max(lineCount[handles'[k].model] + 1, 4) * lineHeight
       /\ LastOp' = "contentChange" =>
            LET m == <<trace'[1].doc, trace'[1].pos>>
                target == Max(lineCount'[m] + 1, 4) * lineHeight
            IN \A k \in DOMAIN handles :
                  Listening(handles, k, m) =>
                      LET e == handles[k]
                          differs == e.height # target
                      IN /\ handles'[k].height = target
                         /\ differs <=> HasEvent(trace', Ev("setHeight", e.doc, e.snip,
                                                            target, e.call))
                         /\ differs <=> HasEvent(trace', Ev("editor.layout", e.doc,
                                                            e.snip, -1, e.call))
                         /\ ~differs => handles'[k] = e]_vars

\* a content change took a live editor to six lines' height, and another
\* live editor is at the minimum height with three lines in its model
C7_Witness ==
    /\ LastOp = "contentChange"
    /\ \E k \in DOMAIN handles :
          /\ Listening(handles, k, handles[k].model)
          /\ lineCount[handles[k].model] = 5
          /\ handles[k].height = 6 * lineHeight
    /\ \E k \in DOMAIN handles :
          /\ Listening(handles, k, handles[k].model)
          /\ lineCount[handles[k].model] = 3
          /\ handles[k].height = 4 * lineHeight

CompactState == content # << >> /\ content[1].compact

\* C8 as stated: after layout(w, h) the presentation is in the compact state
\* exactly when h <= 690, in every state in which layout is called.
C8_CompactIffAtMost690 ==
    LastOp = "layout" => (CompactState <=> trace[1].left <= 690)

\* C8 amended: after layout(w, h) with content mounted, the first element of
\* the content is in the compact state exactly when h <= 690; with no content
\* mounted, layout records no compact state at all.
C8_CompactIffAtMost690WhenMounted ==
    LastOp = "layout" =>
        /\ content # << >> => (content[1].compact <=> trace[1].left <= 690)
        /\ content = << >> => ~CompactState
        /\ size.height = trace[1].left

\* layout at exactly 690 with content mounted: compact
C8_Witness ==
    /\ LastOp = "layout"
    /\ trace[1].left = 690
    /\ content # << >>
    /\ content[1].compact

ScanCount(tr) == Cardinality({j \in DOMAIN tr : tr[j].ev = "scanDomNode"})

\* C9: a layout call that repeats the arguments of the call before it leaves
\* the content size, the compact state and the editors' layouts as they
\* are, and every layout call rescans the scroll surface exactly once.
C9_LayoutIdempotent ==
    [][LastOp' = "layout" =>
          /\ ScanCount(trace') = 1
          /\ trace'[1].pos = 1 =>
                /\ size' = size
                /\ content' = content
                /\ handles' = handles]_vars

\* the second of two identical layout calls, with content and editors mounted
\* and the boundary height
C9_Witness ==
    /\ LastOp = "layout"
    /\ trace[1].pos = 1
    /\ trace[1].left = 690
    /\ content # << >>
    /\ \E k \in DOMAIN handles : handles[k].kind = "editor" /\ InGroup(k)

-----------------------------------------------------------------------------
(* Properties of click interception *)

\* the anchor a click is on: the first element of the chain, from the target
\* up, that is an anchor with an href, when no button comes before it
ClickedAnchor(path) ==
    LET anchors == {k \in DOMAIN path : path[k].tag = "a" /\ path[k].href # NoUri}
        first == CHOOSE k \in anchors : \A j \in anchors : k <= j
    IN IF anchors = {} \/ \E j \in 1..(first - 1) : path[j].tag = "button"
       THEN NoUri
       ELSE path[first].href

\* C10: a click on an anchor whose href matches the base and carries a fragment
\* sets the scroll top to the offset of the target in the content and opens
\* nothing; a click on an anchor with a command href opens it exactly once with
\* the input's telemetry origin as the `from` field of its query; any other
\* href is opened unchanged.
C10_ClickScrollsOrOpens ==
    LET href == ClickedAnchor(click.path)
        string == HrefString(href)
        inDocument == /\ Len(string) >= Len(BaseHref)
                      /\ SubSeq(string, 1, Len(BaseHref)) = BaseHref
                      /\ href.fragment # ""
    IN (LastOp = "click" /\ href # NoUri) =>
          /\ inDocument =>
                /\ click.opened = << >>
                /\ TargetOffset(href.fragment) >= 0
                      => scroll.scrollTop = TargetOffset(href.fragment)
          /\ (~inDocument /\ href.scheme = "command") =>
                /\ Len(click.opened) = 1
                /\ click.opened[1].scheme = "command"
                /\ click.opened[1].path = href.path
                /\ "from" \in DOMAIN click.opened[1].query.props
                /\ click.opened[1].query.props["from"] = TelemetryFrom(input)
          /\ (~inDocument /\ href.scheme # "command") => click.opened = <<href>>

-----------------------------------------------------------------------------
(* Properties of resolution: failure, the ready callback, the pending pane *)

\* the calls whose resolution fails in this step
FailedNow == {c \in DOMAIN calls : calls[c].status = "pending" /\ calls'[c].status = "failed"}

NothingLive(hs) == \A k \in DOMAIN hs : ~Live(hs[k])

\* C11: when the resolution of the current setInput call fails, the call stays
\* failed and no other call is made or resumed (no retry), the pane is left
\* empty (no content, no live editor, no live subscription), and the stored
\* view states are as they were before the failure.
C11_FailureLeavesPaneEmpty ==
    [][\A c \in FailedNow :
          c = Len(calls) =>
             /\ Len(calls') = Len(calls)
             /\ \A b \in DOMAIN calls : b # c => calls'[b] = calls[b]
             /\ memento' = memento
             /\ content' = << >>
             /\ NothingLive(handles')]_vars

Index(tr, name) ==
    IF \E j \in DOMAIN tr : tr[j].ev = name
    THEN CHOOSE j \in DOMAIN tr : tr[j].ev = name /\ \A i \in 1..(j - 1) : tr[i].ev # name
    ELSE 0

Count(tr, name) == Cardinality({j \in DOMAIN tr : tr[j].ev = name})

\* the ready callback in the events of one continuation for document d: as
\* many invocations as the input supplies callbacks, after the mount and every
\* editor's creation and first sizing, before the rescan and the load
OnReadyInPlace(tr, d) ==
    LET ready == Index(tr, "onReady")
    IN /\ Count(tr, "onReady") = (IF HasOnReady(d) THEN 1 ELSE 0)
       /\ ready > 0 =>
             /\ Index(tr, "mount") < ready
             /\ \A j \in DOMAIN tr :
                   tr[j].ev \in {"createEditor", "setHeight", "editor.layout"} => j < ready
             /\ Count(tr, "createEditor") = Len(SnippetFragments(d))
             /\ ready < Index(tr, "scanDomNode")
             /\ ready < Index(tr, "load")

\* C12: the continuation of a setInput call whose input supplies onReady
\* invokes it exactly once, after the mount and after every snippet editor is
\* created, before the rescan and the load; an input without onReady gets no
\* invocation; and no invocation is made for a call that a later setInput has
\* superseded or that dispose() has ended.
C12_OnReadyOnceForCurrentCall ==
    LastOp = "resolve" =>
        /\ OnReadyInPlace(trace, trace[1].doc)
        /\ Index(trace, "onReady") > 0 => (trace[1].left = Len(calls) /\ ~disposed)

\* C14: while the resolution of the most recent setInput call is pending, the
\* content root is empty and no snippet editor is live.
C14_NothingExposedWhilePending ==
    (calls # << >> /\ calls[Len(calls)].status = "pending") =>
        /\ content = << >>
        /\ \A k \in DOMAIN handles : handles[k].kind = "editor" => ~Live(handles[k])

-----------------------------------------------------------------------------
(* Properties of the persisted store *)

DocKeys == {ResourceToString(d) : d \in Docs}

\* the store is the nested mapping key -> document -> slot -> view state
WellFormedStore(mem) ==
    /\ DOMAIN mem \subseteq {ViewStateKey}
    /\ ViewStateKey \in DOMAIN mem =>
          /\ DOMAIN mem[ViewStateKey] \subseteq DocKeys
          /\ \A key \in DOMAIN mem[ViewStateKey] :
                /\ DOMAIN mem[ViewStateKey][key] \subseteq Positions
                /\ \A s \in DOMAIN mem[ViewStateKey][key] :
                      /\ DOMAIN mem[ViewStateKey][key][s] = {"viewState"}
                      /\ DOMAIN mem[ViewStateKey][key][s].viewState
                            = {"scrollTop", "scrollLeft"}

\* C13: the store holds one view state per <<document, slot>> at most; a save
\* for <<d, s>> creates the levels that are missing, puts the current scroll
\* state in the entry of exactly <<d, s>>, and leaves the entry of every other
\* pair as it was; a step that saves nothing leaves the store as it is.
C13_SaveOverwritesOnePair ==
    [][/\ WellFormedStore(memento')
       /\ IF LastOp' \in {"setInput", "clearInput"} /\ input # NoInput
          THEN /\ StoredViewState(memento', input, position) = {ViewStateOf(scroll)}
               /\ \A d \in Docs, s \in Positions :
                     <<d, s>> # <<input, position>> =>
                        StoredViewState(memento', d, s) = StoredViewState(memento, d, s)
          ELSE memento' = memento]_vars

\* a save has just overwritten what the earlier session stored for h at slot
\* 0, the entry of h at slot 1 is the earlier session's still, and the level
\* of document m, which the earlier session never saw, has been created
C13_Witness ==
    /\ LastOp = "clearInput"
    /\ trace[2] = Ev("save", "h", 0, 0, 0)
    /\ StoredViewState(memento, "h", 0) = {[scrollTop |-> 0, scrollLeft |-> 0]}
    /\ StoredViewState(memento, "h", 1) = {[scrollTop |-> 0, scrollLeft |-> 1]}
    /\ StoredViewState(memento, "m", 0) # {}

-----------------------------------------------------------------------------
(* Properties of the rescans *)

\* C15: the first sizing of the snippet editors during the mount rescans
\* nothing: the one rescan of a continuation is the one after the ready
\* callback, right before the load; a later content change rescans once for
\* each live editor on the model whose recomputed height differs from its
\* current height, and not at all when none differs.
C15_RescanOnlyOnLaterResize ==
    [][/\ LastOp' = "resolve" =>
             /\ Count(trace', "setHeight") = Len(SnippetFragments(trace'[1].doc))
             /\ Count(trace', "scanDomNode") = 1
             /\ Index(trace', "scanDomNode") = Index(trace', "load") - 1
             /\ \A j \in DOMAIN trace' :
                   trace'[j].ev = "setHeight" => j < Index(trace', "scanDomNode") - 1
       /\ LastOp' = "contentChange" =>
             LET m == <<trace'[1].doc, trace'[1].pos>>
                 target == Max(lineCount'[m] + 1, 4) * lineHeight
                 resized == {k \in DOMAIN handles :
                                Listening(handles, k, m) /\ handles[k].height # target}
             IN Count(trace', "scanDomNode") = Cardinality(resized)]_vars

\* a content change has just grown a live editor from its first size, with
\* one rescan
C15_Witness ==
    /\ LastOp = "contentChange"
    /\ trace[1].top = 5
    /\ Count(trace, "scanDomNode") = 1
    /\ Count(trace, "setHeight") = 1

-----------------------------------------------------------------------------
(* Properties of the default action of a click *)

RECURSIVE FirstHandled(_, _)
\* the first element of the chain, from the target up, that is an anchor with
\* an href or a button with a data-href; 0 when the chain holds none
FirstHandled(path, k) ==
    IF k > Len(path) THEN 0
    ELSE IF path[k].tag \in {"a", "button"} /\ path[k].href # NoUri THEN k
    ELSE FirstHandled(path, k + 1)

\* C16: when the chain from the click's target up to the content root holds an
\* anchor with an href or a button with a data-href, the walk ends at the first
\* of them and the default action of the click is suppressed; when it holds
\* none, the walk reaches the root, nothing is opened and the default stays.
C16_DefaultSuppressedOnMatch ==
    LastOp = "click" =>
        LET m == FirstHandled(click.path, 1)
        IN IF m > 0
           THEN /\ click.matched = m
                /\ click.prevented
           ELSE /\ click.opened = << >>
                /\ ~click.prevented

-----------------------------------------------------------------------------
(* Properties of the scroll state across documents *)

DefaultScroll == [scrollTop |-> 0, scrollLeft |-> 0]

OwnContentMounted(d) ==
    /\ calls # << >>
    /\ calls[Len(calls)] = [doc |-> d, status |-> "resolved"]
    /\ \E e \in DOMAIN content : content[e].call = Len(calls)

\* C18: a view state is put in the store for document D only while D's own
\* content is mounted, so that every stored offset is one the scroll surface
\* had under D's content: a setInput, clearInput or shutdown that runs while
\* D's resolution is pending or has failed leaves D's entries as they are.
C18_SavedOffsetsBelongToDocument ==
    [][\A d \in Docs, s \in Positions :
          StoredViewState(memento', d, s) # StoredViewState(memento, d, s)
             => OwnContentMounted(d)]_vars

-----------------------------------------------------------------------------
(* Properties of the compact state across documents *)

\* C19: whenever content is mounted and layout has been called, the first
\* element of the content is in the compact state exactly when the height of
\* the most recent layout call is <= 690, also when the content was mounted
\* after that call.
C19_CompactFollowsLastLayout ==
    (content # << >> /\ size # NoSize) =>
        (content[1].compact <=> size.height <= 690)

====
